---- MODULE Spec2Model ----
(***************************************************************************)
(* Model of castor's launcher.c: the one-line input buffer (input, cursor, *)
(* inlen), the horizontal scroll kept by draw(), and the event loop of     *)
(* main() that edits the buffer and ends the session.                      *)
(*                                                                         *)
(* Scaling.  config.h sets input_max = 256 and win_width = 600, and main() *)
(* declares buf[32].  The model keeps the code's arithmetic on these names *)
(* but gives them small values so that the capacity limit and the scroll   *)
(* band are reached by short runs.  Text widths are in glyph cells.        *)
(***************************************************************************)
EXTENDS Integers, Sequences, FiniteSets

\* config.h:15 input_max (256 in the source), scaled.
input_max == 5
\* config.h:11 win_width (600 in the source), scaled; draw() subtracts 20.
win_width == 22
\* launcher.c:136 sizeof(buf) (32 in the source), scaled: the most bytes
\* one XLookupString call can deliver.
buf_size == 2

\* Byte values: 0 is NUL, 1 an ASCII character, 2 the lead byte of a
\* two-byte UTF-8 character, 3 a UTF-8 continuation byte.
Bytes == 0 .. 3
NUL == 0
ASCII == 1
LEAD == 2
CONT == 3

VARIABLES
    input,      \* char input[input_max]
    cursor,     \* int cursor
    inlen,      \* int inlen
    scroll_x,   \* int scroll_x
    running,    \* int running
    result,     \* which branch cleared running: "none", "confirmed", "cancelled"
    trace,      \* observable effects in program order: stdout lines, run_command calls, sh launches, loop exit
    drawn,      \* TRUE iff the handler of the last event called draw()
    len,        \* int len: what XLookupString returned in the last handler, -1 if it was not called
    ins,        \* the bytes the last handler copied from buf into input, <<>> if none
    insOnly,    \* TRUE iff every key press so far was a text key delivering >= 1 byte
    typed       \* while insOnly: the bytes delivered so far, in order

vars == <<input, cursor, inlen, scroll_x, running, result, trace,
          drawn, len, ins, insOnly, typed>>

buffer == <<input, cursor, inlen, scroll_x>>
ghost == <<insOnly, typed>>

Idx == 0 .. input_max - 1

\* content[0..length): the valid bytes of the buffer as a sequence.
Content == [i \in 1 .. inlen |-> input[i - 1]]

\* The strings XLookupString can return into buf: 0 .. sizeof(buf) bytes.
RECURSIVE SeqsUpTo(_)
SeqsUpTo(n) ==
    IF n = 0 THEN {<<>>}
    ELSE LET S == SeqsUpTo(n - 1)
         IN  S \cup {Append(s, b) : s \in {t \in S : Len(t) = n - 1}, b \in Bytes}

LookupStrings == SeqsUpTo(buf_size)

----
\* Text metrics: XftTextExtentsUtf8(input, n).xOff.  Xft decodes UTF-8 from
\* the start and measures the glyphs decoded before the first malformed
\* sequence.  NUL and ASCII are one cell, a two-byte character two cells.
RECURSIVE ExtentFrom(_, _, _)
ExtentFrom(arr, i, n) ==
    IF i >= n THEN 0
    ELSE IF arr[i] \in {NUL, ASCII} THEN 1 + ExtentFrom(arr, i + 1, n)
    ELSE IF arr[i] = LEAD /\ i + 1 < n /\ arr[i + 1] = CONT
         THEN 2 + ExtentFrom(arr, i + 2, n)
    ELSE 0

TextExtent(arr, n) == ExtentFrom(arr, 0, n)

\* draw(): launcher.c:53-60
text_w_of(arr, n) == IF n > 0 THEN TextExtent(arr, n) ELSE 0
\* draw(): launcher.c:63-68
ext_cursor_of(arr, cur) == IF cur > 0 THEN TextExtent(arr, cur) ELSE 0

\* draw(): launcher.c:70
avail_w == win_width - 20

\* FollowCursor that brings a cursor past the right edge to the middle of
\* the band.
FollowCursor_Recenter(xoff, sx) ==
    IF xoff - sx > avail_w THEN xoff - (avail_w \div 2)
    ELSE IF xoff - sx < 0 THEN xoff
    ELSE sx

\* FollowCursor without the scroll back to the left edge.
FollowCursor_NoLeft(xoff, sx) ==
    IF xoff - sx > avail_w THEN xoff - avail_w ELSE sx

\* draw(): launcher.c:73-77, the cursor-following step.
FollowCursor(xoff, sx) ==
    IF xoff - sx > avail_w THEN xoff - avail_w
    ELSE IF xoff - sx < 0 THEN xoff
    ELSE sx

\* draw(): launcher.c:78-81, the clamps.
Clamp(sx, tw) ==
    LET a == IF sx < 0 THEN 0 ELSE sx
    IN  IF a > tw THEN tw ELSE a

\* draw(): the scroll offset it returns (xftdraw is never NULL after startup).
draw(arr, cur, n, sx) ==
    Clamp(FollowCursor(ext_cursor_of(arr, cur), sx), text_w_of(arr, n))

----
\* TailLen that leaves the terminator behind.
TailLen_NoTerminator(n, cur) == n - cur

\* launcher.c:247 and 293: the bytes from the cursor to the end of the text
\* plus the terminator.
TailLen(n, cur) == (n - cur) + 1

\* memmove done as an ascending byte-by-byte copy: when the destination
\* overlaps the source from above, bytes already overwritten are read again.
memmove_Forward(a, dst, src, n) ==
    [i \in Idx |->
        IF i >= dst /\ i < dst + n
        THEN IF dst > src THEN a[src + ((i - dst) % (dst - src))]
             ELSE a[src + (i - dst)]
        ELSE a[i]]

\* memmove(&a[dst], &a[src], n): source bytes are read before any is written.
memmove(a, dst, src, n) ==
    [i \in Idx |-> IF i >= dst /\ i < dst + n THEN a[src + (i - dst)] ELSE a[i]]

\* memcpy that copies one byte whatever n is.
memcpy_OneByte(a, dst, s, n) ==
    [i \in Idx |-> IF i = dst /\ n > 0 THEN s[1] ELSE a[i]]

\* memcpy(&a[dst], s, n) from a byte string s.
memcpy(a, dst, s, n) ==
    [i \in Idx |-> IF i >= dst /\ i < dst + n THEN s[i - dst + 1] ELSE a[i]]

\* The C string at input: the bytes before the first NUL.
RECURSIVE CStrFrom(_, _)
CStrFrom(a, i) ==
    IF i >= input_max \/ a[i] = NUL THEN <<>>
    ELSE <<a[i]>> \o CStrFrom(a, i + 1)

CStr(a) == CStrFrom(a, 0)

----
\* main(): launcher.c:201-206.  Only input[0] is initialised; the rest of
\* the array holds whatever the stack held, here one of the byte values
\* repeated.
Init ==
    /\ \E g \in Bytes : input = [i \in Idx |-> IF i = 0 THEN NUL ELSE g]
    /\ cursor = 0
    /\ inlen = 0
    /\ scroll_x = 0
    /\ running = 1
    /\ result = "none"
    /\ trace = <<>>
    /\ drawn = FALSE
    /\ len = -1
    /\ ins = <<>>
    /\ insOnly = TRUE
    /\ typed = <<>>

\* Any key press other than an accepted-or-rejected text key ends the
\* insert-only prefix of the session.
NotInsert == insOnly' = FALSE /\ typed' = <<>>

\* A handler that does not reach XLookupString (launcher.c:287).
NoLookup == len' = -1 /\ ins' = <<>>

\* Expose that recomputes the scroll from offset 0, as the Ctrl-U branch
\* does.
Expose_FromZero ==
    /\ running = 1
    /\ NoLookup
    /\ scroll_x' = draw(input, cursor, inlen, 0)
    /\ drawn' = TRUE
    /\ UNCHANGED <<input, cursor, inlen, running, result, trace, insOnly, typed>>

\* case Expose: launcher.c:211-219.  Taking the input focus on the first
\* Expose (focused) is a request to the X server and touches no state below.
Expose ==
    /\ running = 1
    /\ NoLookup
    /\ scroll_x' = draw(input, cursor, inlen, scroll_x)
    /\ drawn' = TRUE
    /\ UNCHANGED <<input, cursor, inlen, running, result, trace, insOnly, typed>>

\* case FocusOut: launcher.c:220-222 (the body is commented out)
FocusOut ==
    /\ running = 1
    /\ NoLookup
    /\ drawn' = FALSE
    /\ UNCHANGED <<buffer, running, result, trace, ghost>>

\* The atoms a ClientMessage can carry in data.l[0].
Atoms == {"WM_DELETE_WINDOW", "OTHER_ATOM"}

\* ClientMessage whose comparison with wm_delete_window never succeeds.
ClientMessage_Ignored(atom) ==
    /\ running = 1
    /\ NoLookup
    /\ drawn' = FALSE
    /\ UNCHANGED <<buffer, running, result, trace, ghost>>

\* case ClientMessage: launcher.c:223-226
ClientMessage(atom) ==
    /\ running = 1
    /\ NoLookup
    /\ drawn' = FALSE
    /\ IF atom = "WM_DELETE_WINDOW"
       THEN /\ running' = 0
            /\ result' = "cancelled"
            /\ trace' = Append(trace, [kind |-> "stop", text |-> <<>>])
       ELSE UNCHANGED <<running, result, trace>>
    /\ UNCHANGED <<buffer, ghost>>

----
\* case KeyPress: launcher.c:227-303.  key is XLookupKeysym(&ev.xkey, 0),
\* ctrl is ev.xkey.state & ControlMask.
Keys == {"XK_Escape", "XK_Return", "XK_KP_Enter", "XK_BackSpace", "XK_Left",
         "XK_Right", "XK_Home", "XK_End", "XK_u", "XK_other"}

\* The if / else-if chain of launcher.c:230-286, in its order.
Branch(key, ctrl) ==
    IF key = "XK_Escape" THEN "escape"
    ELSE IF key = "XK_Return" \/ key = "XK_KP_Enter" THEN "return"
    ELSE IF key = "XK_BackSpace" THEN "backspace"
    ELSE IF key = "XK_Left" THEN "left"
    ELSE IF key = "XK_Right" THEN "right"
    ELSE IF key = "XK_Home" THEN "home"
    ELSE IF key = "XK_End" THEN "end"
    ELSE IF ctrl /\ key = "XK_u" THEN "clear"
    ELSE "text"

\* The branches some key press with some modifier state takes.
Branches == {Branch(key, ctrl) : key \in Keys, ctrl \in BOOLEAN}

Dispatch(b) == b \in Branches

\* launcher.c:230-231
KeyEscape ==
    /\ running = 1
    /\ NoLookup
    /\ Dispatch("escape")
    /\ running' = 0
    /\ result' = "cancelled"
    /\ trace' = Append(trace, [kind |-> "stop", text |-> <<>>])
    /\ drawn' = FALSE
    /\ NotInsert
    /\ UNCHANGED buffer

\* run_command(): launcher.c:96-119, as the effects it adds to the trace.
\* It receives a C string; forkOk is the outcome of fork().
run_command(str, forkOk) ==
    <<[kind |-> "run_command", text |-> str]>> \o
    (IF str = <<>> THEN <<>>
     ELSE IF ~forkOk THEN <<>>
     ELSE <<[kind |-> "sh", text |-> str]>>)

\* ConfirmEffects with run_command called before the text is printed.
ConfirmEffects_ExecFirst(a, forkOk) ==
    run_command(CStr(a), forkOk) \o <<[kind |-> "stdout", text |-> CStr(a)]>>

\* launcher.c:233-241, the effects of confirming a non-empty buffer, in
\* program order: printf + fflush, then run_command.
ConfirmEffects(a, forkOk) ==
    <<[kind |-> "stdout", text |-> CStr(a)]>> \o run_command(CStr(a), forkOk)

\* NonEmpty that lets the empty buffer through.
NonEmpty_Always(n) == n >= 0

\* launcher.c:233, the guard of the confirmation effects.
NonEmpty(n) == n > 0

\* KeyReturn that forgets to clear running.
KeyReturn_StaysRunning(forkOk) ==
    /\ running = 1
    /\ NoLookup
    /\ Dispatch("return")
    /\ IF NonEmpty(inlen)
       THEN /\ input' = [input EXCEPT ![inlen] = NUL]
            /\ trace' = trace \o ConfirmEffects(input', forkOk)
       ELSE /\ input' = input
            /\ trace' = trace
    /\ running' = 1
    /\ result' = "confirmed"
    /\ drawn' = FALSE
    /\ NotInsert
    /\ UNCHANGED <<cursor, inlen, scroll_x>>

\* launcher.c:232-242
KeyReturn(forkOk) ==
    /\ running = 1
    /\ NoLookup
    /\ Dispatch("return")
    /\ IF NonEmpty(inlen)
       THEN /\ input' = [input EXCEPT ![inlen] = NUL]
            /\ trace' = trace \o ConfirmEffects(input', forkOk)
                             \o <<[kind |-> "stop", text |-> <<>>]>>
       ELSE /\ input' = input
            /\ trace' = Append(trace, [kind |-> "stop", text |-> <<>>])
    /\ running' = 0
    /\ result' = "confirmed"
    /\ drawn' = FALSE
    /\ NotInsert
    /\ UNCHANGED <<cursor, inlen, scroll_x>>

\* KeyBackSpace that deletes a whole two-byte character when the cursor
\* follows one.
KeyBackSpace_WholeChar ==
    /\ running = 1
    /\ NoLookup
    /\ Dispatch("backspace")
    /\ IF cursor > 0
       THEN LET w == IF cursor > 1 /\ input[cursor - 1] = CONT
                        /\ input[cursor - 2] = LEAD
                     THEN 2 ELSE 1
            IN  /\ input' = memmove(input, cursor - w, cursor, TailLen(inlen, cursor))
                /\ cursor' = cursor - w
                /\ inlen' = inlen - w
                /\ scroll_x' = draw(input', cursor', inlen', scroll_x)
                /\ drawn' = TRUE
       ELSE /\ UNCHANGED buffer
            /\ drawn' = FALSE
    /\ NotInsert
    /\ UNCHANGED <<running, result, trace>>

\* launcher.c:243-253
KeyBackSpace ==
    /\ running = 1
    /\ NoLookup
    /\ Dispatch("backspace")
    /\ IF cursor > 0
       THEN /\ input' = memmove(input, cursor - 1, cursor, TailLen(inlen, cursor))
            /\ cursor' = cursor - 1
            /\ inlen' = inlen - 1
            /\ scroll_x' = draw(input', cursor', inlen', scroll_x)
            /\ drawn' = TRUE
       ELSE /\ UNCHANGED buffer
            /\ drawn' = FALSE
    /\ NotInsert
    /\ UNCHANGED <<running, result, trace>>

\* launcher.c:255-256
MoveLeft(cur) == IF cur > 0 THEN cur - 1 ELSE cur

\* MoveRight without the test against inlen.
MoveRight_Unguarded(cur, n) == cur + 1

\* launcher.c:260-261
MoveRight(cur, n) == IF cur < n THEN cur + 1 ELSE cur

\* launcher.c:254-258
KeyLeft ==
    /\ running = 1
    /\ NoLookup
    /\ Dispatch("left")
    /\ cursor' = MoveLeft(cursor)
    /\ scroll_x' = draw(input, cursor', inlen, scroll_x)
    /\ drawn' = TRUE
    /\ NotInsert
    /\ UNCHANGED <<input, inlen, running, result, trace>>

\* launcher.c:259-263
KeyRight ==
    /\ running = 1
    /\ NoLookup
    /\ Dispatch("right")
    /\ cursor' = MoveRight(cursor, inlen)
    /\ scroll_x' = draw(input, cursor', inlen, scroll_x)
    /\ drawn' = TRUE
    /\ NotInsert
    /\ UNCHANGED <<input, inlen, running, result, trace>>

\* KeyHome that redraws whether or not the cursor moved, as Left and Right
\* do.
KeyHome_AlwaysDraws ==
    /\ running = 1
    /\ NoLookup
    /\ Dispatch("home")
    /\ cursor' = 0
    /\ scroll_x' = draw(input, cursor', inlen, scroll_x)
    /\ drawn' = TRUE
    /\ NotInsert
    /\ UNCHANGED <<input, inlen, running, result, trace>>

\* launcher.c:264-270
KeyHome ==
    /\ running = 1
    /\ NoLookup
    /\ Dispatch("home")
    /\ IF cursor # 0
       THEN /\ cursor' = 0
            /\ scroll_x' = draw(input, cursor', inlen, scroll_x)
            /\ drawn' = TRUE
       ELSE /\ UNCHANGED <<cursor, scroll_x>>
            /\ drawn' = FALSE
    /\ NotInsert
    /\ UNCHANGED <<input, inlen, running, result, trace>>

\* launcher.c:271-277
KeyEnd ==
    /\ running = 1
    /\ NoLookup
    /\ Dispatch("end")
    /\ IF cursor # inlen
       THEN /\ cursor' = inlen
            /\ scroll_x' = draw(input, cursor', inlen, scroll_x)
            /\ drawn' = TRUE
       ELSE /\ UNCHANGED <<cursor, scroll_x>>
            /\ drawn' = FALSE
    /\ NotInsert
    /\ UNCHANGED <<input, inlen, running, result, trace>>

\* KeyClear that empties the buffer but neither resets nor recomputes the
\* scroll.
KeyClear_KeepsScroll ==
    /\ running = 1
    /\ NoLookup
    /\ Dispatch("clear")
    /\ cursor' = 0
    /\ inlen' = 0
    /\ input' = [input EXCEPT ![0] = NUL]
    /\ scroll_x' = scroll_x
    /\ drawn' = FALSE
    /\ NotInsert
    /\ UNCHANGED <<running, result, trace>>

\* launcher.c:278-285, Ctrl-U
KeyClear ==
    /\ running = 1
    /\ NoLookup
    /\ Dispatch("clear")
    /\ cursor' = 0
    /\ inlen' = 0
    /\ input' = [input EXCEPT ![0] = NUL]
    /\ scroll_x' = draw(input', cursor', inlen', 0)
    /\ drawn' = TRUE
    /\ NotInsert
    /\ UNCHANGED <<running, result, trace>>

\* Fits without the capacity test.
Fits_Unchecked(n, k) == k > 0

\* Fits with the limit one byte too far (<= for <).
Fits_OffByOne(n, k) == k > 0 /\ n + k <= input_max - 1

\* launcher.c:289-290, the guard of the insert.
Fits(n, k) == k > 0 /\ n + k < input_max - 1

\* The cursor advanced by one character instead of len bytes.
CursorAfterInsert_One(cur, k) == cur + 1

\* launcher.c:296, cursor += len
CursorAfterInsert(cur, k) == cur + k

\* launcher.c:297, inlen += len
InlenAfterInsert(n, k) == n + k

\* The insert-only history: the bytes delivered so far, followed while
\* their total can still matter to the buffer.
TrackTyped(s) ==
    IF Len(s) = 0 THEN UNCHANGED ghost
    ELSE IF insOnly /\ Len(typed) + Len(s) < input_max
         THEN insOnly' = TRUE /\ typed' = typed \o s
    ELSE NotInsert

\* launcher.c:286-302.  s is what XLookupString wrote into buf.
KeyText(s) ==
    /\ running = 1
    /\ Dispatch("text")
    /\ IF Fits(inlen, Len(s))
       THEN /\ cursor' = CursorAfterInsert(cursor, Len(s))
            /\ inlen' = InlenAfterInsert(inlen, Len(s))
            /\ input' = memcpy(memmove(input, cursor + Len(s), cursor,
                                       TailLen(inlen, cursor)),
                               cursor, s, Len(s))
            /\ scroll_x' = draw(input', cursor', inlen', scroll_x)
            /\ drawn' = TRUE
       ELSE /\ UNCHANGED buffer
            /\ drawn' = FALSE
    /\ len' = Len(s)
    /\ ins' = IF Fits(inlen, Len(s)) THEN s ELSE <<>>
    /\ TrackTyped(s)
    /\ UNCHANGED <<running, result, trace>>

\* main(): launcher.c:208-305, one iteration of the event loop.
Next ==
    \/ Expose
    \/ FocusOut
    \/ \E atom \in Atoms : ClientMessage(atom)
    \/ KeyEscape
    \/ \E forkOk \in BOOLEAN : KeyReturn(forkOk)
    \/ KeyBackSpace
    \/ KeyLeft
    \/ KeyRight
    \/ KeyHome
    \/ KeyEnd
    \/ KeyClear
    \/ \E s \in LookupStrings : KeyText(s)

Spec == Init /\ [][Next]_vars

\* Valid text: a sequence of whole characters, each a NUL, an ASCII byte
\* or a lead byte followed by its continuation byte.
RECURSIVE WholeFrom(_, _)
WholeFrom(s, i) ==
    IF i > Len(s) THEN TRUE
    ELSE IF s[i] \in {NUL, ASCII} THEN WholeFrom(s, i + 1)
    ELSE IF s[i] = LEAD /\ i + 1 <= Len(s) /\ s[i + 1] = CONT
         THEN WholeFrom(s, i + 2)
    ELSE FALSE

ValidText(s) == WholeFrom(s, 1)

\* The strings of whole characters XLookupString can return.
WholeStrings == {s \in LookupStrings : ValidText(s)}

\* The event loop when every printable input delivers whole characters.
NextWhole ==
    \/ Expose
    \/ FocusOut
    \/ \E atom \in Atoms : ClientMessage(atom)
    \/ KeyEscape
    \/ \E forkOk \in BOOLEAN : KeyReturn(forkOk)
    \/ KeyBackSpace
    \/ KeyLeft
    \/ KeyRight
    \/ KeyHome
    \/ KeyEnd
    \/ KeyClear
    \/ \E s \in WholeStrings : KeyText(s)

SpecWhole == Init /\ [][NextWhole]_vars

\* The indices of input that memmove(&input[dst], &input[src], n) reads
\* and writes.
memmoveIdx(dst, src, n) == (src .. src + n - 1) \cup (dst .. dst + n - 1)

\* launcher.c:291-295: the indices of input the insert of k bytes touches,
\* the tail shift and the copy from buf.
InsertIdx(cur, n, k) ==
    memmoveIdx(cur + k, cur, TailLen(n, cur)) \cup (cur .. cur + k - 1)

\* launcher.c:245-247: the indices of input the Backspace shift touches.
BackSpaceIdx(cur, n) == memmoveIdx(cur - 1, cur, TailLen(n, cur))

\* launcher.c:201, 234 and 282: the indices the terminator writes touch.
TerminatorIdx(n) == {0, n}

TypeOK ==
    /\ input \in [Idx -> Bytes]
    /\ cursor \in 0 .. input_max
    /\ inlen \in 0 .. input_max
    /\ scroll_x \in Int
    /\ running \in {0, 1}
    /\ result \in {"none", "confirmed", "cancelled"}
    /\ drawn \in BOOLEAN
    /\ insOnly \in BOOLEAN
    /\ len \in -1 .. buf_size
    /\ ins \in LookupStrings
----
\* Properties.

\* The step inserted all n bytes of the input s at the cursor.  (A step
\* with len' >= 1 is a printable-input key press delivering len' bytes;
\* ins' is the input when the handler copied it into the buffer.)
Inserted(n, s) ==
    /\ Len(s) = n
    /\ inlen' = inlen + n
    /\ cursor' = cursor + n
    /\ Content' = SubSeq(Content, 1, cursor) \o s \o SubSeq(Content, cursor + 1, inlen)

\* The step left the edit state as it was.
Rejected == UNCHANGED <<input, cursor, inlen, scroll_x>>

\* C1 as the spec states it: an input with length + insertedLen ==
\* capacity - 1 is inserted, one with length + insertedLen >= capacity is
\* rejected with no state change.
C1_AsStated ==
    [][len' >= 1 =>
          /\ (inlen + len' = input_max - 1 => Inserted(len', ins'))
          /\ (inlen + len' >= input_max => Rejected)]_vars

\* C1, amended: the last input that fits is the one with length +
\* insertedLen == capacity - 2, which is inserted in full (cursor and length
\* advance by insertedLen); every input with length + insertedLen >=
\* capacity - 1 is rejected and leaves content, length, cursor and
\* scrollOffset unchanged.
C1_CapacityBoundary ==
    [][len' >= 1 =>
          /\ (inlen + len' = input_max - 2 => Inserted(len', ins'))
          /\ (inlen + len' >= input_max - 1 => Rejected)]_vars

\* Inserts filled the buffer to capacity - 2 and the next one-byte input,
\* which would make length capacity - 1, was turned away.
C1_Witness ==
    /\ insOnly
    /\ inlen = input_max - 2
    /\ Len(typed) = input_max - 1
    /\ SubSeq(typed, 1, inlen) = Content
    /\ len = 1
    /\ ~drawn

\* C2: a printable input of n >= 1 bytes is a silent no-op (content,
\* length, cursor, scrollOffset unchanged, no redraw, still running, no
\* output) exactly when length + n >= capacity - 1, and is otherwise
\* inserted in full; never in part.
C2_RejectionThreshold ==
    [][len' >= 1 =>
          IF inlen + len' >= input_max - 1
          THEN /\ Rejected
               /\ ~drawn'
               /\ running' = 1
               /\ UNCHANGED <<result, trace>>
          ELSE /\ Inserted(len', ins')
               /\ drawn'
               /\ running' = 1]_vars

\* A two-byte input was turned away from a buffer with room for one more
\* byte only.
C2_Witness ==
    /\ insOnly
    /\ running = 1
    /\ ~drawn
    /\ inlen = input_max - 3
    /\ len = 2
    /\ Len(typed) = inlen + 2

\* C3 as the spec states it: for insert-only sessions whose total stays
\* under capacity, length is the sum of the inserted lengths and the
\* content is their concatenation.
C3_AsStated ==
    (insOnly /\ Len(typed) < input_max) =>
        (inlen = Len(typed) /\ Content = typed)

\* C3, amended: for every sequence of inserts from the empty buffer whose
\* total length stays under capacity - 1, length equals the sum of the
\* inserted lengths and content[0..length) is their concatenation in order.
C3_InsertSequence ==
    (insOnly /\ Len(typed) < input_max - 1) =>
        (inlen = Len(typed) /\ Content = typed)

\* Several inserts of different bytes filled the buffer to capacity - 2.
C3_Witness ==
    /\ insOnly
    /\ Len(typed) = input_max - 2
    /\ inlen = Len(typed)
    /\ typed[1] # typed[2]
    /\ typed[2] # typed[Len(typed)]

\* The text metrics draw() works from in the current state.
totalExtent == text_w_of(input, inlen)
cursorExtent == ext_cursor_of(input, cursor)

\* C4: after any scroll recompute, whenever totalExtent >= availableWidth
\* the cursor is inside the visible band:
\* 0 <= cursorExtent - scrollOffset <= availableWidth.
C4_CursorInBand ==
    (drawn /\ totalExtent >= avail_w) =>
        (0 <= cursorExtent - scroll_x /\ cursorExtent - scroll_x <= avail_w)

\* A text wider than the window, scrolled right, with the cursor brought
\* back to the left edge of the band.
C4_Witness ==
    /\ drawn
    /\ totalExtent > avail_w
    /\ scroll_x > 0
    /\ cursorExtent = scroll_x
    /\ cursor < inlen

\* C5 as the spec states it: after any scroll recompute, whenever
\* totalExtent < availableWidth the scroll offset is 0.
C5_FitsMeansUnscrolled ==
    (drawn /\ totalExtent < avail_w) => scroll_x = 0

Outputs(kind) == {trace[i].text : i \in {j \in DOMAIN trace : trace[j].kind = kind}}

\* C6 as the spec states it: after Enter on a non-empty buffer the session
\* is Confirmed, and both the line written to standard output and the text
\* handed to the command-execution collaborator equal content[0..length).
C6_ForwardsBuffer ==
    (result = "confirmed" /\ inlen > 0) =>
        /\ running = 0
        /\ Outputs("stdout") = {Content}
        /\ Outputs("run_command") = {Content}

Positions(kind) == {j \in DOMAIN trace : trace[j].kind = kind}

\* C7: in every session that executes a command, the standard-output line
\* with the confirmed text is written before run_command is called and
\* before the shell is launched, and the loop is left (running = 0) only
\* after both.
C7_OutputBeforeExec ==
    \A j \in Positions("sh") :
        /\ \E i \in Positions("stdout"), c \in Positions("run_command") :
              /\ i < c /\ c < j
              /\ trace[i].text = trace[j].text
              /\ trace[c].text = trace[j].text
        /\ \E k \in Positions("stop") : j < k
        /\ \A k \in Positions("stop") : k = Len(trace)
        /\ running = 0

\* A session that launched a command of more than one byte.
C7_Witness ==
    \E j \in Positions("sh") : Len(trace[j].text) > 1 /\ trace[j].text = Content

NoOutput == Positions("stdout") \cup Positions("run_command") \cup Positions("sh") = {}

\* C8: Enter with an empty buffer, however the buffer came to be empty,
\* ends the session as Confirmed with no command execution triggered and
\* nothing written to standard output.
C8_EmptyEnter ==
    [][\A forkOk \in BOOLEAN :
          (inlen = 0 /\ KeyReturn(forkOk)) =>
            /\ running' = 0
            /\ result' = "confirmed"
            /\ NoOutput'
            /\ UNCHANGED <<cursor, inlen, scroll_x>>]_vars

\* Confirmed on a buffer that had held text and was emptied again: the
\* bytes left behind past the terminator differ from the initial fill.
C8_Witness ==
    /\ result = "confirmed"
    /\ inlen = 0
    /\ input[1] # input[2]

\* C9: from every running state an Escape key press and a close request
\* from the host are possible, and each ends the session as Cancelled
\* without calling run_command and without writing to standard output.
C9_Cancel ==
    /\ [](running = 1 =>
            (ENABLED KeyEscape /\ ENABLED ClientMessage("WM_DELETE_WINDOW")))
    /\ [][(KeyEscape \/ ClientMessage("WM_DELETE_WINDOW")) =>
            /\ running' = 0
            /\ result' = "cancelled"
            /\ NoOutput'
            /\ UNCHANGED buffer]_vars

\* Cancelled with text in the buffer and the cursor inside it.
C9_Witness ==
    /\ result = "cancelled"
    /\ running = 0
    /\ inlen > 1
    /\ cursor > 0
    /\ cursor < inlen

\* C10: in every reachable state 0 <= cursor <= length < capacity; Left
\* and Right never take the cursor outside [0, length].
C10_Bounds ==
    /\ 0 <= cursor
    /\ cursor <= inlen
    /\ inlen < input_max

\* The cursor taken by key presses from the end of a full buffer back to
\* its start.
C10_Witness ==
    /\ inlen = input_max - 2
    /\ cursor = 0
    /\ drawn
    /\ len = -1
    /\ ~insOnly
\* C11: in every reachable state content[length] holds the terminator,
\* also after inserting or deleting in the middle of the text and at the
\* capacity limit.
C11_Terminator == input[inlen] = NUL

\* An insert in the middle of the text filled the buffer to its limit,
\* over bytes that were not NUL before.
C11_Witness ==
    /\ ins # <<>>
    /\ inlen = input_max - 2
    /\ cursor < inlen
    /\ cursor > Len(ins)
    /\ input[input_max - 1] # NUL
    /\ \A i \in 0 .. inlen - 1 : input[i] # NUL
\* C12 as the spec states it: when every printable input delivers whole
\* characters, content[0..length) is always valid text and never holds
\* part of a multi-byte character.
C12_ValidText == ValidText(Content)
\* C13: the session outcome is produced once.  Every step starts in
\* Running, so once running is cleared no event is processed and nothing
\* changes again; running is cleared exactly when the outcome is set;
\* run_command is called at most once in a session, and only by the step
\* that ends it as Confirmed.
C13_OutcomeOnce ==
    /\ [](/\ (running = 0) <=> (result # "none")
          /\ Cardinality(Positions("run_command")) <= 1
          /\ Cardinality(Positions("stop")) <= 1
          /\ (Positions("run_command") # {} => result = "confirmed"))
    /\ [][/\ running = 1
          /\ result = "none"
          /\ (Positions("run_command")' # Positions("run_command") =>
                (running' = 0 /\ result' = "confirmed"))]_vars

\* A confirmed session whose one run_command call failed to fork.
C13_Witness ==
    /\ running = 0
    /\ result = "confirmed"
    /\ Cardinality(Positions("run_command")) = 1
    /\ Positions("sh") = {}
    /\ Content # <<>>
    /\ CStr(input) = Content
\* C14: when an n-byte printable input is accepted with the cursor at c,
\* the new content is old[0..c) ++ bytes ++ old[c..length), the new cursor
\* is c + n and the new length is length + n; the bytes before and after
\* the insertion keep their values and order.
C14_InsertEffect ==
    [][(len' >= 1 /\ ins' # <<>>) =>
          /\ Len(ins') = len'
          /\ cursor' = cursor + len'
          /\ inlen' = inlen + len'
          /\ SubSeq(Content', 1, cursor) = SubSeq(Content, 1, cursor)
          /\ SubSeq(Content', cursor + 1, cursor + len') = ins'
          /\ SubSeq(Content', cursor + len' + 1, inlen') =
                SubSeq(Content, cursor + 1, inlen)]_vars

\* One byte inserted at the start of a two-byte text of different bytes.
C14_Witness ==
    /\ Len(ins) = 1
    /\ len = 1
    /\ cursor = 1
    /\ inlen = 3
    /\ input[1] # input[2]
    /\ input[0] # input[1]
\* C15: with the cursor at c > 0, Backspace removes exactly the one byte
\* at c - 1: the content becomes old[0..c-1) ++ old[c..length), the cursor
\* c - 1 and the length length - 1, whatever character that byte belonged
\* to.
C15_BackspaceEffect ==
    [][(KeyBackSpace /\ cursor > 0) =>
          /\ cursor' = cursor - 1
          /\ inlen' = inlen - 1
          /\ Content' = SubSeq(Content, 1, cursor - 1) \o
                         SubSeq(Content, cursor + 1, inlen)
          /\ drawn'
          /\ running' = 1]_vars

\* The continuation byte of a two-byte character was deleted from the
\* middle of the text: its lead byte is left in front of the cursor, and
\* the old terminator is still in place behind the new one.
C15_Witness ==
    /\ drawn
    /\ len = -1
    /\ cursor > 0
    /\ cursor < inlen
    /\ input[cursor - 1] = LEAD
    /\ input[cursor] = ASCII
    /\ input[inlen + 1] = NUL
    /\ input[input_max - 1] # NUL
\* C16: Backspace at cursor == 0, Home at cursor == 0 and End at
\* cursor == length each leave content, length, cursor and scrollOffset
\* unchanged, call no scroll recompute or redraw, and keep the session
\* running.
C16_EdgeNoOps ==
    [][(\/ (KeyBackSpace /\ cursor = 0)
        \/ (KeyHome /\ cursor = 0)
        \/ (KeyEnd /\ cursor = inlen)) =>
          /\ UNCHANGED <<input, cursor, inlen, scroll_x>>
          /\ ~drawn'
          /\ running' = 1
          /\ UNCHANGED <<result, trace>>]_vars

\* A scrolled text with the cursor at its end, after a key press that did
\* not redraw.
C16_Witness ==
    /\ running = 1
    /\ ~drawn
    /\ len = -1
    /\ ~insOnly
    /\ inlen > 0
    /\ cursor = inlen
    /\ scroll_x > 0
\* C17: a redraw request mutates nothing.  Every running state is a fixed
\* point of the scroll recompute, and an Expose step leaves content,
\* length, cursor and scrollOffset unchanged and the session running.
C17_ExposeMutatesNothing ==
    /\ [](running = 1 => draw(input, cursor, inlen, scroll_x) = scroll_x)
    /\ [][Expose =>
            /\ UNCHANGED <<input, cursor, inlen, scroll_x>>
            /\ running' = 1
            /\ UNCHANGED <<result, trace>>]_vars

\* A redraw of a scrolled text with the cursor inside the band, after
\* text keys only (no other handler has redrawn since the last insert
\* was turned away).
C17_Witness ==
    /\ drawn
    /\ len = -1
    /\ insOnly
    /\ Len(typed) > inlen
    /\ scroll_x > 0
\* C18: a recompute changes scrollOffset only when the cursor is outside
\* the visible band under the old offset.  With the cursor in the band the
\* offset is unchanged; past the right edge the new offset puts it exactly
\* on the right edge; past the left edge, exactly on the left edge.
C18_MinimalScroll ==
    [][drawn' =>
          LET c == cursorExtent'
          IN  /\ (0 <= c - scroll_x /\ c - scroll_x <= avail_w) =>
                    scroll_x' = scroll_x
              /\ c - scroll_x > avail_w => c - scroll_x' = avail_w
              /\ c - scroll_x < 0 => c - scroll_x' = 0]_vars

\* A two-byte insert at the end of the text took the cursor past the right
\* edge; the view scrolled right and the cursor is on the right edge of the
\* band.
C18_Witness ==
    /\ drawn
    /\ Len(ins) = 2
    /\ cursor = inlen
    /\ scroll_x > 0
    /\ cursorExtent - scroll_x = avail_w
\* C19: at every event boundary, also after deletions and clear-line have
\* shrunk a text the view had scrolled over,
\* 0 <= scrollOffset <= totalExtent of the current content.
C19_ScrollRange == 0 <= scroll_x /\ scroll_x <= totalExtent

\* Deletions shrank a scrolled text until the offset equals its whole
\* extent.
C19_Witness ==
    /\ drawn
    /\ len = -1
    /\ scroll_x > 0
    /\ scroll_x = totalExtent
    /\ inlen + 2 < input_max
    /\ input[inlen + 1] = NUL
    /\ input[inlen + 2] = NUL
\* C20: for every translated input of 1 to sizeof(buf) bytes, every index
\* of input read or written by the insert shift, the insert copy, the
\* Backspace shift and the terminator writes lies within [0, capacity);
\* length never exceeds capacity - 2, so the terminator slot
\* content[length] is inside the buffer.
C20_MemorySafety ==
    /\ inlen <= input_max - 2
    /\ \A k \in 1 .. buf_size :
          Fits(inlen, k) => InsertIdx(cursor, inlen, k) \subseteq Idx
    /\ cursor > 0 => BackSpaceIdx(cursor, inlen) \subseteq Idx
    /\ TerminatorIdx(inlen) \subseteq Idx

\* A full buffer whose last insert was made at index 0 and shifted the
\* whole earlier text and its terminator to the end of the array.
C20_Witness ==
    /\ ins # <<>>
    /\ inlen = input_max - 2
    /\ cursor = Len(ins)
    /\ cursor < inlen
    /\ input[input_max - 1] # NUL
====
